---- MODULE Spec2Model ----
(***************************************************************************)
(* Model of the Jira MCP server: the five tools of server.py and the       *)
(* JiraClient operations of src/jira_client.py they delegate to.           *)
(*                                                                         *)
(* A Python string is a sequence of characters; a character is a one-      *)
(* character TLA+ string.  Literal fragments of messages and URLs are      *)
(* single multi-character elements, so that concatenation (\o) builds the  *)
(* formatted strings the code builds with f-strings.                       *)
(*                                                                         *)
(* Every tool invocation is one action.  The tracker is a stub: the        *)
(* action draws the response (or the exception) of each upstream request   *)
(* from a small set, and records the requests actually issued in `calls`.  *)
(***************************************************************************)
EXTENDS Integers, Sequences, FiniteSets, TLC

VARIABLES tool, inp, calls, result

vars == <<tool, inp, calls, result>>

---------------------------------------------------------------------------
(* Bounds *)

MaxTransitions == 3
MaxProjects == 2
MaxIssues == 2
MaxBoards == 2

SeqsUpTo(S, n) == UNION {[1..k -> S] : k \in 0..n}

---------------------------------------------------------------------------
(* Python strings *)

UpperChars == <<"A","B","C","D","E","F","G","H","I","J","K","L","M",
                "N","O","P","Q","R","S","T","U","V","W","X","Y","Z">>
LowerChars == <<"a","b","c","d","e","f","g","h","i","j","k","l","m",
                "n","o","p","q","r","s","t","u","v","w","x","y","z">>

IsUpperChar(c) == \E i \in DOMAIN UpperChars : UpperChars[i] = c
IsLowerChar(c) == \E i \in DOMAIN LowerChars : LowerChars[i] = c

\* str.lower() on one character
LowerChar(c) ==
    IF IsUpperChar(c)
    THEN LowerChars[CHOOSE i \in DOMAIN UpperChars : UpperChars[i] = c]
    ELSE c

\* str.lower()
Lower(s) == [i \in DOMAIN s |-> LowerChar(s[i])]

\* str.isupper(): at least one cased character and no lowercase one
IsUpper(s) ==
    /\ \E i \in DOMAIN s : IsUpperChar(s[i])
    /\ \A i \in DOMAIN s : ~IsLowerChar(s[i])

Digits == <<"0","1","2","3","4","5","6","7","8","9">>

RECURSIVE IntToStr(_)
\* str(n) for a non-negative int
IntToStr(n) ==
    IF n < 10 THEN <<Digits[n + 1]>>
    ELSE IntToStr(n \div 10) \o <<Digits[(n % 10) + 1]>>

RECURSIVE Join(_, _)
\* sep.join(strs)
Join(strs, sep) ==
    IF strs = <<>> THEN <<>>
    ELSE IF Len(strs) = 1 THEN strs[1]
    ELSE strs[1] \o sep \o Join(Tail(strs), sep)

---------------------------------------------------------------------------
(* Python values of dynamic type: a JSON field is missing from its object, *)
(* or is null, a string, an int, or an object.                             *)

PyMissing == [t |-> "missing", s |-> <<>>, n |-> 0]
PyNone    == [t |-> "none",    s |-> <<>>, n |-> 0]
PyStr(s)  == [t |-> "str",     s |-> s,    n |-> 0]
PyInt(n)  == [t |-> "int",     s |-> <<>>, n |-> n]

\* dict.get(key) without default: a missing key reads as None
Get(v) == IF v.t = "missing" THEN PyNone ELSE v

\* str(v), also what an f-string does with {v}
StrOf(v) ==
    CASE v.t = "str" -> v.s
      [] v.t = "int" -> IntToStr(v.n)
      [] OTHER       -> <<"None">>

PyList(l) == [t |-> "list",    s |-> l,    n |-> 0]

\* truthiness of an Optional[str] / Optional[list]
Truthy(v) == v.t \in {"str", "list"} /\ v.s # <<>>

\* server.py: x if x else None
OrNone(v) == IF Truthy(v) THEN v ELSE PyNone

---------------------------------------------------------------------------
(* Control flow of one call: it returns a value or raises.                 *)

Return(v)     == [kind |-> "return", val |-> v]
RaiseJCE(m)   == [kind |-> "JiraClientError", msg |-> m]
RaiseExc(m)   == [kind |-> "Exception", msg |-> m]

Raised(o) == o.kind # "return"

\* the handler without its `except Exception` clause
ExceptReraise_Propagates(o, prefix) == o

\* except JiraClientError: raise
\* except Exception as e: raise JiraClientError(f"{prefix}: {str(e)}")
ExceptReraise(o, prefix) ==
    IF o.kind = "Exception" THEN RaiseJCE(<<prefix, ": ">> \o o.msg) ELSE o

\* except Exception as e: raise JiraClientError(f"{prefix}: {str(e)}")
\* (JiraClientError is an Exception too, so it is wrapped again)
ExceptAll(o, prefix) ==
    IF Raised(o) THEN RaiseJCE(<<prefix, ": ">> \o o.msg) ELSE o

\* an upstream response drawn by the stub: it raises or carries a body
UpRaise     == [raises |-> TRUE]
UpOk(body)  == [raises |-> FALSE, body |-> body]

TransportError == <<"HTTP 500">>
AttributeErrorNone == <<"'NoneType' object has no attribute 'get'">>

Call(op, data) == [op |-> op, data |-> data]

BaseUrl == <<"https://jira.example">>

---------------------------------------------------------------------------
(* JiraClient.get_current_user_account_id *)

get_current_user_account_id(myself) ==
    LET body ==
          IF myself.raises THEN RaiseExc(TransportError)
          ELSE IF ~Truthy(Get(myself.body.accountId))
               THEN RaiseJCE(<<"Unable to retrieve account ID">>)
               ELSE Return(myself.body.accountId.s)
    IN ExceptAll(body, "Failed to get current user account ID")

(* JiraClient._get_board_for_project *)

_get_board_for_project(project_key, lookup) ==
    IF lookup.raises THEN PyMissing       \* except Exception: return {}
    ELSE IF lookup.body.values # <<>>
         THEN lookup.body.values[1].id     \* boards[0]
         ELSE PyMissing                    \* {}

KanbanTemplate == <<"com.pyxis.greenhopper.jira:gh-kanban-template">>
ScrumTemplate  == <<"com.pyxis.greenhopper.jira:gh-scrum-template">>

ProjectKeyMsg == <<"Project key must be 2-10 uppercase letters (e.g., 'PROJ', 'TEST')">>

InvalidBoardTypeMsg(board_type) ==
    <<"Invalid board_type '">> \o board_type \o <<"'. Must be 'scrum' or 'kanban'">>

\* if not project_key.isupper() or not (2 <= len(project_key) <= 10)
ProjectKeyRejected(project_key) ==
    \/ ~IsUpper(project_key)
    \/ ~(2 <= Len(project_key) /\ Len(project_key) <= 10)

(* JiraClient.create_project: the outcome and the upstream requests issued *)

client_create_project(project_name, project_key, board_type, up) ==
    LET CMyself == Call("GET myself", <<>>)
        acc     == get_current_user_account_id(up.myself)
        bt      == Lower(board_type)
        template == IF bt = <<"k","a","n","b","a","n">> THEN KanbanTemplate
                    ELSE ScrumTemplate
        payload == [key |-> project_key, name |-> project_name,
                    projectTypeKey |-> <<"software">>,
                    projectTemplateKey |-> template,
                    leadAccountId |-> IF Raised(acc) THEN <<>> ELSE acc.val,
                    assigneeType |-> <<"UNASSIGNED">>]
        CPost   == Call("POST project", payload)
        CBoard  == Call("GET board", project_key)
        board_id == Get(_get_board_for_project(project_key, up.board))
        res     == up.post.body
        success_response ==
            [success |-> TRUE,
             project_key |-> Get(res.key),
             project_id  |-> Get(res.id),
             project_url |-> BaseUrl \o <<"/browse/">> \o StrOf(Get(res.key)),
             board_id    |-> board_id,
             board_url   |-> BaseUrl \o <<"/jira/software/c/projects/">>
                             \o project_key \o <<"/boards/">> \o StrOf(board_id),
             board_type  |-> board_type,
             message     |-> <<"Successfully created ">> \o board_type
                             \o <<" board '">> \o project_name
                             \o <<"' with project key ">> \o project_key]
        body ==
            IF ProjectKeyRejected(project_key)
            THEN [out |-> RaiseJCE(ProjectKeyMsg), calls |-> <<>>]
            ELSE IF Raised(acc)
            THEN [out |-> acc, calls |-> <<CMyself>>]
            ELSE IF bt # <<"k","a","n","b","a","n">> /\ bt # <<"s","c","r","u","m">>
            THEN [out |-> RaiseJCE(InvalidBoardTypeMsg(board_type)),
                  calls |-> <<CMyself>>]
            ELSE IF up.post.raises
            THEN [out |-> RaiseExc(TransportError), calls |-> <<CMyself, CPost>>]
            ELSE [out |-> Return(success_response),
                  calls |-> <<CMyself, CPost, CBoard>>]
    IN [out |-> ExceptReraise(body.out, "Failed to create board"),
        calls |-> body.calls]

---------------------------------------------------------------------------
(* JiraClient.get_project_key_by_name *)

\* the comparison without .lower()
FirstProjectNamed_CaseSensitive(projects, project_name) ==
    LET hits == {i \in DOMAIN projects : projects[i].name = project_name}
    IN IF hits = {} THEN 0 ELSE CHOOSE i \in hits : \A j \in hits : i <= j

\* for project in projects: if project.name.lower() == project_name.lower()
FirstProjectNamed(projects, project_name) ==
    LET hits == {i \in DOMAIN projects :
                    Lower(projects[i].name) = Lower(project_name)}
    IN IF hits = {} THEN 0 ELSE CHOOSE i \in hits : \A j \in hits : i <= j

get_project_key_by_name(project_name, listing) ==
    LET i == FirstProjectNamed(listing.body, project_name)
        body ==
          IF listing.raises THEN RaiseExc(TransportError)
          ELSE IF i # 0 THEN Return(listing.body[i].key)
          ELSE RaiseJCE(<<"Project '">> \o project_name \o <<"' not found">>)
    IN ExceptReraise(body, "Failed to get project key")

\* the optional entries attached unconditionally
OptionalFields_AlwaysSent(assignee, priority, labels, due_date) ==
    "assignee" :> [name |-> assignee.s]
    @@ "priority" :> [name |-> priority.s]
    @@ "labels"   :> labels.s
    @@ "duedate"  :> due_date.s

\* the optional entries of issue["fields"]
OptionalFields(assignee, priority, labels, due_date) ==
    (IF Truthy(assignee) THEN "assignee" :> [name |-> assignee.s] ELSE <<>>)
    @@ (IF Truthy(priority) THEN "priority" :> [name |-> priority.s] ELSE <<>>)
    @@ (IF Truthy(labels)   THEN "labels"   :> labels.s   ELSE <<>>)
    @@ (IF Truthy(due_date) THEN "duedate"  :> due_date.s ELSE <<>>)

(* JiraClient.create_issue: the outcome and the upstream requests issued.  *)
(* project_key, project_name, assignee, priority, labels and due_date are  *)
(* Optional values; summary, description and issue_type are strings.       *)

client_create_issue(project_key, project_name, summary, description, issue_type, assignee, priority, labels, due_date, up) ==
    LET resolve  == ~Truthy(project_key) /\ Truthy(project_name)
        CList    == Call("GET projects", <<>>)
        looked   == get_project_key_by_name(project_name.s, up.projects)
        pkey     == IF resolve /\ ~Raised(looked) THEN PyStr(looked.val)
                    ELSE project_key
        fields   == ("project" :> [key |-> pkey.s]
                     @@ "summary" :> summary
                     @@ "description" :> description
                     @@ "issuetype" :> [name |-> issue_type])
                    @@ OptionalFields(assignee, priority, labels, due_date)
        CCreate  == Call("POST issue", fields)
        pre      == IF resolve THEN <<CList>> ELSE <<>>
        res      == up.create.body
        issue_key == Get(res.key)
        success_response ==
            [success |-> TRUE,
             issue_key |-> issue_key,
             issue_id  |-> Get(res.id),
             issue_url |-> BaseUrl \o <<"/browse/">> \o StrOf(issue_key),
             message   |-> <<"Successfully created issue ">> \o StrOf(issue_key)]
        body ==
            IF summary = <<>>
            THEN [out |-> RaiseJCE(<<"Summary is required">>), calls |-> <<>>]
            ELSE IF resolve /\ Raised(looked)
            THEN [out |-> looked, calls |-> pre]
            ELSE IF ~Truthy(pkey)
            THEN [out |-> RaiseJCE(<<"Either project_key or project_name must be provided">>),
                  calls |-> pre]
            ELSE IF up.create.raises
            THEN [out |-> RaiseExc(TransportError), calls |-> pre \o <<CCreate>>]
            ELSE [out |-> Return(success_response), calls |-> pre \o <<CCreate>>]
    IN [out |-> ExceptReraise(body.out, "Failed to create issue"),
        calls |-> body.calls]

---------------------------------------------------------------------------
(* JiraClient.search_issues *)

\* A field of issue["fields"] that holds an object: st is "missing" (no such
\* key), "null" (key present, value null) or "obj" (an object with a name).
FMissing   == [st |-> "missing", name |-> <<>>]
FNull      == [st |-> "null",    name |-> <<>>]
FObj(name) == [st |-> "obj",     name |-> name]

\* fields.get(f, {}).get("name"): the default {} only replaces a missing key
NameOrNone(f) ==
    CASE f.st = "missing" -> Return(PyNone)
      [] f.st = "null"    -> RaiseExc(AttributeErrorNone)
      [] OTHER            -> Return(PyStr(f.name))

\* fields.get("priority", {}).get("name", "None")
PriorityName(f) ==
    CASE f.st = "missing" -> Return(PyStr(<<"None">>))
      [] f.st = "null"    -> RaiseExc(AttributeErrorNone)
      [] OTHER            -> Return(PyStr(f.name))

\* assignee_data.get("displayName") if assignee_data else "Unassigned"
AssigneeName(f) ==
    IF f.st = "obj" THEN PyStr(f.name) ELSE PyStr(<<"Unassigned">>)

\* one iteration of the loop over results["issues"]
SimplifyIssue(issue) ==
    LET status   == NameOrNone(issue.status)
        priority == PriorityName(issue.priority)
        itype    == NameOrNone(issue.issuetype)
    IN IF Raised(status) THEN status
       ELSE IF Raised(priority) THEN priority
       ELSE IF Raised(itype) THEN itype
       ELSE Return([key |-> issue.key,
                    summary |-> issue.summary,
                    status |-> status.val,
                    assignee |-> AssigneeName(issue.assignee),
                    priority |-> priority.val,
                    issue_type |-> itype.val,
                    url |-> BaseUrl \o <<"/browse/">> \o issue.key])

client_search_issues(query, max_results, up) ==
    LET payload == [jql |-> query, maxResults |-> max_results,
                    fields |-> <<"summary", "status", "assignee",
                                 "issuetype", "priority", "created">>]
        CSearch == Call("POST search", payload)
        issues  == up.search.body.issues
        issue_count == Len(issues)
        simplified  == [i \in DOMAIN issues |-> SimplifyIssue(issues[i])]
        failing == {i \in DOMAIN issues : Raised(simplified[i])}
        total   == up.search.body.total
        body ==
            IF query = <<>>
            THEN [out |-> RaiseJCE(<<"Query cannot be empty">>), calls |-> <<>>]
            ELSE IF up.search.raises
            THEN [out |-> RaiseExc(TransportError), calls |-> <<CSearch>>]
            ELSE IF failing # {}
            THEN [out |-> simplified[CHOOSE i \in failing : \A j \in failing : i <= j],
                  calls |-> <<CSearch>>]
            ELSE [out |-> Return(
                      [success |-> TRUE,
                       total |-> IF total.t = "missing" THEN PyInt(issue_count)
                                 ELSE total,
                       returned |-> issue_count,
                       issues |-> [i \in DOMAIN issues |-> simplified[i].val]]),
                  calls |-> <<CSearch>>]
    IN [out |-> ExceptAll(body.out, "Failed to search issues"),
        calls |-> body.calls]

---------------------------------------------------------------------------
(* JiraClient.add_comment *)

client_add_comment(issue_id, comment, up) ==
    LET CComment == Call("POST comment", [issue_id |-> issue_id, body |-> comment])
        body ==
            IF issue_id = <<>> \/ comment = <<>>
            THEN [out |-> RaiseJCE(<<"Issue ID and comment are required">>),
                  calls |-> <<>>]
            ELSE IF up.comment.raises
            THEN [out |-> RaiseExc(TransportError), calls |-> <<CComment>>]
            ELSE [out |-> Return(
                      [success |-> TRUE,
                       issue_id |-> issue_id,
                       comment_id |-> Get(up.comment.body.id),
                       message |-> <<"Successfully added comment to ">> \o issue_id]),
                  calls |-> <<CComment>>]
    IN [out |-> ExceptAll(body.out, "Failed to add comment"),
        calls |-> body.calls]

---------------------------------------------------------------------------
(* JiraClient.change_status *)

\* The transitions response: shape is "list" (a bare sequence), "dict" (an
\* object, with or without the key "transitions") or "other" (anything else).
RespList(items)  == [shape |-> "list",  haskey |-> FALSE, items |-> items]
RespDict(items)  == [shape |-> "dict",  haskey |-> TRUE,  items |-> items]
RespDictNoKey    == [shape |-> "dict",  haskey |-> FALSE, items |-> <<>>]
RespOther        == [shape |-> "other", haskey |-> FALSE, items |-> <<>>]

\* the object read under a key the tracker does not use
TransitionsOf_WrongKey(resp) ==
    IF resp.shape = "dict" THEN <<>> ELSE resp.items

\* transitions_response.get("transitions", []) / the list itself
TransitionsOf(resp) ==
    IF resp.shape = "dict" THEN (IF resp.haskey THEN resp.items ELSE <<>>)
    ELSE resp.items

\* transition_name = t.get("name", ""); isinstance(transition_name, str) and
\* transition_name.lower() == new_status.lower()
TransitionMatches(t, new_status) ==
    LET transition_name == IF t.name.t = "missing" THEN PyStr(<<>>) ELSE t.name
    IN transition_name.t = "str" /\ Lower(transition_name.s) = Lower(new_status)

\* the loop without its break: the last match wins
FindTarget_LastMatch(transitions, new_status) ==
    LET hits == {i \in DOMAIN transitions :
                    TransitionMatches(transitions[i], new_status)}
    IN IF hits = {} THEN 0 ELSE CHOOSE i \in hits : \A j \in hits : i >= j

\* the loop with break: index of the target, 0 when target stays None
FindTarget(transitions, new_status) ==
    LET hits == {i \in DOMAIN transitions :
                    TransitionMatches(transitions[i], new_status)}
    IN IF hits = {} THEN 0 ELSE CHOOSE i \in hits : \A j \in hits : i <= j

\* the comprehension without its isinstance filter
AvailableNames_Unfiltered(transitions) ==
    [i \in DOMAIN transitions |->
        IF transitions[i].name.t = "missing" THEN <<"Unknown">>
        ELSE StrOf(transitions[i].name)]

\* [t.get("name", "Unknown") for t in transitions if isinstance(t.get("name"), str)]
AvailableNames(transitions) ==
    LET named == SelectSeq(transitions, LAMBDA t : t.name.t = "str")
    IN [i \in DOMAIN named |-> named[i].name.s]

NotAvailableMsg(new_status, available) ==
    <<"Status '">> \o new_status
    \o <<"' not available. Available transitions: ">>
    \o Join(available, <<", ">>)

client_change_status(issue_id, new_status, up) ==
    LET CTransitions == Call("GET transitions", issue_id)
        resp        == up.transitions.body
        transitions == TransitionsOf(resp)
        target      == FindTarget(transitions, new_status)
        transition_id == Get(transitions[target].id)
        CApply      == Call("POST transition",
                            [issue_id |-> issue_id, transition_id |-> transition_id])
        body ==
            IF issue_id = <<>> \/ new_status = <<>>
            THEN [out |-> RaiseJCE(<<"Issue ID and new status are required">>),
                  calls |-> <<>>]
            ELSE IF up.transitions.raises
            THEN [out |-> RaiseExc(TransportError), calls |-> <<CTransitions>>]
            ELSE IF resp.shape \notin {"dict", "list"}
            THEN [out |-> RaiseJCE(<<"Unexpected response format from get_issue_transitions">>),
                  calls |-> <<CTransitions>>]
            ELSE IF target = 0
            THEN [out |-> RaiseJCE(NotAvailableMsg(new_status,
                                                   AvailableNames(transitions))),
                  calls |-> <<CTransitions>>]
            ELSE IF up.apply.raises
            THEN [out |-> RaiseExc(TransportError),
                  calls |-> <<CTransitions, CApply>>]
            ELSE [out |-> Return(
                      [success |-> TRUE,
                       issue_id |-> issue_id,
                       new_status |-> new_status,
                       transition_id |-> StrOf(transition_id),
                       message |-> <<"Successfully changed ">> \o issue_id
                                   \o <<" status to ">> \o new_status]),
                  calls |-> <<CTransitions, CApply>>]
    IN [out |-> ExceptReraise(body.out, "Failed to change status"),
        calls |-> body.calls]

---------------------------------------------------------------------------
(* Tool facade (server.py) *)

\* try: return result / except JiraClientError as e: return {"error": str(e)}
FacadeDomain(o) ==
    CASE o.kind = "return"          -> [status |-> "ok", data |-> o.val]
      [] o.kind = "JiraClientError" -> [status |-> "error", error |-> o.msg]
      [] OTHER                      -> [status |-> "raised", exc |-> o.msg]

\* change_status additionally has: except Exception as e: return {"error": str(e)}
FacadeAll(o) ==
    CASE o.kind = "return" -> [status |-> "ok", data |-> o.val]
      [] OTHER             -> [status |-> "error", error |-> o.msg]

---------------------------------------------------------------------------
(* Inputs and stubbed upstream responses *)

KeySamples ==
    { <<>>, <<"A">>, <<"A","B">>, <<"D","E","M","O">>,
      <<"a","b">>, <<"A","b">>, <<"A","B","1">>, <<"1","2">>, <<"A","_","B">>,
      <<"A","B","C","D","E","F","G","H","I","J">>,
      <<"A","B","C","D","E","F","G","H","I","J","K">> }

BoardTypeSamples ==
    { <<"k","a","n","b","a","n">>, <<"K","a","n","b","a","n">>,
      <<"s","c","r","u","m">>, <<"S","C","R","U","M">>,
      <<"a","g","i","l","e">>, <<>> }

MyselfSamples ==
    { UpRaise,
      UpOk([accountId |-> PyStr(<<"u","1">>)]),
      UpOk([accountId |-> PyMissing]),
      UpOk([accountId |-> PyStr(<<>>)]) }

BoardSamples == { [id |-> PyInt(7)], [id |-> PyInt(12)] }

BoardLookupSamples ==
    {UpRaise} \cup { UpOk([values |-> bs]) : bs \in SeqsUpTo(BoardSamples, MaxBoards) }

ProjectPostSamples(project_key) ==
    { UpRaise, UpOk([key |-> PyStr(project_key), id |-> PyStr(<<"1","0","0","0","1">>)]) }

ProjectSamples ==
    { [name |-> <<"D","e","m","o">>, key |-> <<"D","E","M","O">>],
      [name |-> <<"D","E","M","O">>, key |-> <<"D","M","2">>],
      [name |-> <<"O","p","s">>,     key |-> <<"O","P","S">>] }

ProjectListSamples ==
    {UpRaise} \cup { UpOk(ps) : ps \in SeqsUpTo(ProjectSamples, MaxProjects) }

IssueCreateSamples ==
    { UpRaise, UpOk([key |-> PyStr(<<"D","E","M","O","-","1">>),
                     id |-> PyStr(<<"1","0","0","4","2">>)]) }

SummarySamples     == { <<>>, <<"F","i","x">> }
IssueKeySamples    == { <<>>, <<"O","P","S">> }
ProjectNameSamples == { <<>>, <<"d","e","m","o">>, <<"O","p","s">>, <<"N","o","n","e">> }
AssigneeSamples    == { <<>>, <<"a","n","n">> }
PrioritySamples    == { <<>>, <<"H","i","g","h">> }
LabelsSamples      == { <<>>, << <<"b","u","g">>, <<"u","i">> >> }
DueDateSamples     == { <<>>, <<"2","0","2","7","-","0","1","-","3","1">> }

IssueSamples ==
    { [key |-> <<"D","E","M","O","-","1">>, summary |-> <<"F","i","x">>,
       status |-> st, assignee |-> a, priority |-> p,
       issuetype |-> FObj(<<"T","a","s","k">>)] :
         st \in {FObj(<<"O","p","e","n">>), FMissing},
         a  \in {FObj(<<"A","n","n">>), FMissing, FNull},
         p  \in {FObj(<<"H","i","g","h">>), FMissing, FNull} }

SearchSamples ==
    {UpRaise} \cup
    { UpOk([issues |-> is, total |-> t]) :
         is \in SeqsUpTo(IssueSamples, MaxIssues), t \in {PyMissing, PyInt(25)} }

QuerySamples == { <<>>, <<"project = DEMO">> }

IssueIdSamples == { PyStr(<<>>), PyStr(<<"D","E","M","O","-","1">>), PyInt(10042) }
CommentTextSamples == { <<>>, <<"l","g","t","m">> }
CommentSamples ==
    { UpRaise, UpOk([id |-> PyStr(<<"9","0","1">>)]), UpOk([id |-> PyMissing]) }

TransitionSamples ==
    { [id |-> PyStr(<<"3","1">>), name |-> PyStr(<<"I","n"," ","P","r","o","g","r","e","s","s">>)],
      [id |-> PyStr(<<"4","1">>), name |-> PyStr(<<"D","o","n","e">>)],
      [id |-> PyInt(51),          name |-> PyStr(<<"D","O","N","E">>)],
      [id |-> PyStr(<<"6","1">>), name |-> PyNone],
      [id |-> PyStr(<<"7","1">>), name |-> PyMissing],
      [id |-> PyStr(<<"8","1">>), name |-> PyInt(5)] }

TransitionsSamples ==
    {UpRaise, UpOk(RespDictNoKey), UpOk(RespOther)} \cup
    UNION { {UpOk(RespList(ts)), UpOk(RespDict(ts))} :
               ts \in SeqsUpTo(TransitionSamples, MaxTransitions) }

NewStatusSamples ==
    { <<>>, <<"D","o","n","e">>, <<"d","o","n","e">>, <<"C","l","o","s","e","d">> }

ApplySamples == { UpRaise, UpOk(<<>>) }

---------------------------------------------------------------------------
(* State machine *)

Init ==
    /\ tool = "none"
    /\ inp = [none |-> TRUE]
    /\ calls = <<>>
    /\ result = [status |-> "none"]

\* server.create_project
CreateProject ==
    /\ tool = "none"
    /\ \E project_key \in KeySamples, board_type \in BoardTypeSamples,
       myself \in MyselfSamples, board \in BoardLookupSamples :
      \E post \in ProjectPostSamples(project_key) :
        LET project_name == <<"D","e","m","o">>
            up == [myself |-> myself, post |-> post, board |-> board]
            r  == client_create_project(project_name, project_key, board_type, up)
        IN /\ tool' = "create_project"
           /\ inp' = [project_name |-> project_name, project_key |-> project_key,
                      board_type |-> board_type, up |-> up]
           /\ calls' = r.calls
           /\ result' = FacadeDomain(r.out)

\* server.create_issue
CreateIssue ==
    /\ tool = "none"
    /\ \E summary \in SummarySamples, project_key \in IssueKeySamples,
          project_name \in ProjectNameSamples, assignee \in AssigneeSamples,
          priority \in PrioritySamples, labels \in LabelsSamples,
          due_date \in DueDateSamples,
          projects \in ProjectListSamples, create \in IssueCreateSamples :
        LET description == <<"d","e","s","c">>
            issue_type  == <<"T","a","s","k">>
            up == [projects |-> projects, create |-> create]
            r  == client_create_issue(OrNone(PyStr(project_key)),
                                      OrNone(PyStr(project_name)),
                                      summary, description, issue_type,
                                      OrNone(PyStr(assignee)),
                                      OrNone(PyStr(priority)),
                                      OrNone(PyList(labels)),
                                      OrNone(PyStr(due_date)), up)
        IN /\ tool' = "create_issue"
           /\ inp' = [summary |-> summary, project_key |-> project_key,
                      project_name |-> project_name, description |-> description,
                      issue_type |-> issue_type, assignee |-> assignee,
                      priority |-> priority, labels |-> labels,
                      due_date |-> due_date, up |-> up]
           /\ calls' = r.calls
           /\ result' = FacadeDomain(r.out)

\* server.search_issues
SearchIssues ==
    /\ tool = "none"
    /\ \E query \in QuerySamples, search \in SearchSamples :
        LET up == [search |-> search]
            r  == client_search_issues(query, 10, up)
        IN /\ tool' = "search_issues"
           /\ inp' = [query |-> query, up |-> up]
           /\ calls' = r.calls
           /\ result' = FacadeDomain(r.out)

\* server.add_comment
AddComment ==
    /\ tool = "none"
    /\ \E issue_id \in {i.s : i \in {j \in IssueIdSamples : j.t = "str"}},
          comment \in CommentTextSamples, posted \in CommentSamples :
        LET up == [comment |-> posted]
            r  == client_add_comment(issue_id, comment, up)
        IN /\ tool' = "add_comment"
           /\ inp' = [issue_id |-> issue_id, comment |-> comment, up |-> up]
           /\ calls' = r.calls
           /\ result' = FacadeDomain(r.out)

\* server.change_status
ChangeStatus ==
    /\ tool = "none"
    /\ \E issue_id \in IssueIdSamples, new_status \in NewStatusSamples,
          transitions \in TransitionsSamples, apply \in ApplySamples :
        LET up == [transitions |-> transitions, apply |-> apply]
            \* issue_id = str(issue_id); new_status = str(new_status)
            r  == client_change_status(StrOf(issue_id), StrOf(PyStr(new_status)), up)
        IN /\ tool' = "change_status"
           /\ inp' = [issue_id |-> StrOf(issue_id), new_status |-> new_status,
                      up |-> up]
           /\ calls' = r.calls
           /\ result' = FacadeAll(r.out)

\* mcp.run(): the result is handed back to the host and the server waits for
\* the next tool invocation; nothing is kept between invocations
Reply ==
    /\ tool # "none"
    /\ tool' = "none"
    /\ inp' = [none |-> TRUE]
    /\ calls' = <<>>
    /\ result' = [status |-> "none"]

Next ==
    \/ CreateProject
    \/ CreateIssue
    \/ SearchIssues
    \/ AddComment
    \/ ChangeStatus
    \/ Reply

Spec == Init /\ [][Next]_vars

---------------------------------------------------------------------------
(* Vocabulary of the properties, stated without the client's own helpers   *)

\* c and d are the same letter, in either case
SameLetter(c, d) ==
    \E k \in DOMAIN UpperChars : {c, d} \subseteq {UpperChars[k], LowerChars[k]}

\* a equals b case-insensitively
EqIgnoreCase(a, b) ==
    /\ Len(a) = Len(b)
    /\ \A i \in DOMAIN a : a[i] = b[i] \/ SameLetter(a[i], b[i])

\* ^[A-Z]{2,10}$
MatchesKeyPattern(k) ==
    /\ Len(k) >= 2 /\ Len(k) <= 10
    /\ \A i \in DOMAIN k : IsUpperChar(k[i])

Kanban == <<"k","a","n","b","a","n">>
Scrum  == <<"s","c","r","u","m">>

SupportedBoardType(bt) == EqIgnoreCase(bt, Kanban) \/ EqIgnoreCase(bt, Scrum)

OpsOf(cs) == {cs[i].op : i \in DOMAIN cs}

\* the transitions the tracker handed over, when the response has one of the
\* two accepted shapes
FetchedTransitions == inp.up.transitions.body.items

HasName(t, status) == t.name.t = "str" /\ EqIgnoreCase(t.name.s, status)

ChangeStatusFetched ==
    /\ tool = "change_status"
    /\ inp.issue_id # <<>> /\ inp.new_status # <<>>
    /\ ~inp.up.transitions.raises

AcceptedShape ==
    \/ inp.up.transitions.body.shape = "list"
    \/ inp.up.transitions.body.shape = "dict" /\ inp.up.transitions.body.haskey

\* index of the first fetched transition named new_status, 0 if none
FirstNamed ==
    LET hits == {i \in DOMAIN FetchedTransitions :
                    HasName(FetchedTransitions[i], inp.new_status)}
    IN IF hits = {} THEN 0 ELSE CHOOSE i \in hits : \A j \in hits : j >= i

RECURSIVE StringNames(_)
\* the names that are strings, in list order
StringNames(ts) ==
    IF ts = <<>> THEN <<>>
    ELSE (IF Head(ts).name.t = "str" THEN <<Head(ts).name.s>> ELSE <<>>)
         \o StringNames(Tail(ts))

---------------------------------------------------------------------------
(* C1: for every project_key that does not match ^[A-Z]{2,10}$,            *)
(* create_project returns an error and issues no upstream request.         *)
C1_BadKeyFailsWithoutRequests ==
    (tool = "create_project" /\ ~MatchesKeyPattern(inp.project_key))
        => (result.status = "error" /\ calls = <<>>)

(* C2: every invocation of each of the five tools ends by returning a      *)
(* success record or {"error": message}, whatever the upstream calls do;   *)
(* no exception propagates past the tool boundary.                         *)
C2_ToolNeverRaises ==
    tool # "none" => result.status \in {"ok", "error"}

\* a transport failure in the middle of create_project, reported as an error
\* record
C2_Witness ==
    /\ tool = "create_project"
    /\ Len(calls) = 2
    /\ inp.up.post.raises
    /\ result.status = "error"

(* C3: in change_status with non-empty inputs, when some fetched           *)
(* transition is named new_status case-insensitively, the transitions are  *)
(* queried once, exactly one transition is applied - the id of the first   *)
(* such transition in list order - and, the apply request having gone      *)
(* through, the result is a success whose transition_id is that id as a    *)
(* string.                                                                 *)
C3_FirstMatchApplied ==
    (ChangeStatusFetched /\ AcceptedShape /\ FirstNamed # 0)
        => /\ Len(calls) = 2
           /\ calls[1].op = "GET transitions"
           /\ calls[2].op = "POST transition"
           /\ calls[2].data.transition_id = FetchedTransitions[FirstNamed].id
           /\ ~inp.up.apply.raises
                => /\ result.status = "ok"
                   /\ result.data.transition_id
                        = (IF FetchedTransitions[FirstNamed].id.t = "int"
                           THEN IntToStr(FetchedTransitions[FirstNamed].id.n)
                           ELSE FetchedTransitions[FirstNamed].id.s)

\* several transitions carry a matching name and the first is not at the head
C3_Witness ==
    /\ ChangeStatusFetched /\ AcceptedShape
    /\ FirstNamed = 2
    /\ \E j \in DOMAIN FetchedTransitions :
          j > 2 /\ HasName(FetchedTransitions[j], inp.new_status)
    /\ result.status = "ok"
    /\ result.data.transition_id = <<"5","1">>

(* C4: in change_status, when no fetched transition is named new_status    *)
(* case-insensitively, the result is the not-available error whose message *)
(* lists exactly the names that are strings, and no transition is applied. *)
C4_NoMatchListsNames ==
    (ChangeStatusFetched /\ AcceptedShape /\ FirstNamed = 0)
        => /\ result.status = "error"
           /\ result.error =
                <<"Status '">> \o inp.new_status
                \o <<"' not available. Available transitions: ">>
                \o Join(StringNames(FetchedTransitions), <<", ">>)
           /\ "POST transition" \notin OpsOf(calls)

\* a list mixing string names and non-string names, none of them the target
C4_Witness ==
    /\ ChangeStatusFetched /\ AcceptedShape /\ FirstNamed = 0
    /\ Len(StringNames(FetchedTransitions)) = 2
    /\ Len(FetchedTransitions) = 3
    /\ result.status = "error"

\* the same response in the other accepted shape
OtherShape(resp) ==
    IF resp.shape = "list" THEN RespDict(resp.items) ELSE RespList(resp.items)

\* what the tool answers to the same invocation when the tracker wraps the
\* transitions the other way
AnswerToOtherShape ==
    LET up2 == [inp.up EXCEPT !.transitions = UpOk(OtherShape(inp.up.transitions.body))]
        r   == client_change_status(inp.issue_id, inp.new_status, up2)
    IN [calls |-> r.calls, result |-> FacadeAll(r.out)]

ProtocolErrorMsg == <<"Unexpected response format from get_issue_transitions">>

\* a bare sequence and the same sequence under the key "transitions" get the
\* same requests and the same answer
BothShapesAlike ==
    (ChangeStatusFetched /\ AcceptedShape)
        => /\ AnswerToOtherShape.calls = calls
           /\ AnswerToOtherShape.result = result

(* C5 as stated: change_status treats a bare sequence and the sequence     *)
(* wrapped under `transitions` identically; every other response shape,    *)
(* including an object with no `transitions` key, fails with a protocol    *)
(* error and applies no transition.                                        *)
C5_OtherShapesAreProtocolErrors ==
    /\ BothShapesAlike
    /\ (ChangeStatusFetched /\ ~AcceptedShape)
          => /\ result.status = "error"
             /\ result.error = ProtocolErrorMsg
             /\ "POST transition" \notin OpsOf(calls)

(* C5 amended: both accepted shapes are treated identically; a response    *)
(* that is neither a sequence nor an object fails with a protocol error;   *)
(* an object with no `transitions` key is read as an empty transition      *)
(* list, so it fails with the not-available error listing no names; in     *)
(* neither case is a transition applied.                                   *)
C5_ShapesAmended ==
    /\ BothShapesAlike
    /\ (ChangeStatusFetched /\ ~AcceptedShape)
          => /\ result.status = "error"
             /\ "POST transition" \notin OpsOf(calls)
             /\ inp.up.transitions.body.shape = "other"
                    => result.error = ProtocolErrorMsg
             /\ inp.up.transitions.body.shape = "dict"
                    => result.error =
                         <<"Status '">> \o inp.new_status
                         \o <<"' not available. Available transitions: ">>

\* the wrapped shape, with a transition that matches and is applied
C5_Witness ==
    /\ ChangeStatusFetched
    /\ inp.up.transitions.body.shape = "dict"
    /\ inp.up.transitions.body.haskey
    /\ FirstNamed # 0
    /\ result.status = "ok"

\* the issue-creation request of this invocation, if one was sent
IssueRequests == {i \in DOMAIN calls : calls[i].op = "POST issue"}

RequiredIssueFields == {"project", "summary", "description", "issuetype"}

(* C6: the field-set of the issue-creation request contains assignee,      *)
(* priority, labels, duedate exactly when the corresponding input is       *)
(* non-empty, with the input value verbatim; project, summary, description *)
(* and issuetype are always present.                                       *)
C6_OptionalFieldsRoundTrip ==
    tool = "create_issue" =>
      \A i \in IssueRequests :
        LET f == calls[i].data IN
        /\ RequiredIssueFields \subseteq DOMAIN f
        /\ DOMAIN f \subseteq
              RequiredIssueFields \cup {"assignee", "priority", "labels", "duedate"}
        /\ f["summary"] = inp.summary
        /\ f["description"] = inp.description
        /\ f["issuetype"] = [name |-> inp.issue_type]
        /\ ("assignee" \in DOMAIN f) <=> (inp.assignee # <<>>)
        /\ ("priority" \in DOMAIN f) <=> (inp.priority # <<>>)
        /\ ("labels" \in DOMAIN f)   <=> (inp.labels # <<>>)
        /\ ("duedate" \in DOMAIN f)  <=> (inp.due_date # <<>>)
        /\ inp.assignee # <<>> => f["assignee"] = [name |-> inp.assignee]
        /\ inp.priority # <<>> => f["priority"] = [name |-> inp.priority]
        /\ inp.labels # <<>>   => f["labels"] = inp.labels
        /\ inp.due_date # <<>> => f["duedate"] = inp.due_date

\* a request sent with some optional inputs given and the others empty
C6_Witness ==
    /\ tool = "create_issue"
    /\ IssueRequests # {}
    /\ inp.assignee = <<>> /\ inp.due_date = <<>>
    /\ inp.priority # <<>> /\ inp.labels # <<>>
    /\ result.status = "ok"

\* index of the first listed project named project_name, 0 if none
FirstListed ==
    LET ps   == inp.up.projects.body
        hits == {i \in DOMAIN ps : EqIgnoreCase(ps[i].name, inp.project_name)}
    IN IF hits = {} THEN 0 ELSE CHOOSE i \in hits : \A j \in hits : j >= i

(* C7: create_issue with a non-empty summary: with neither project_key nor *)
(* project_name it fails with the validation error and no upstream call;   *)
(* with only project_name it lists the projects and the issue-creation     *)
(* request carries the key of the first listed project of that name        *)
(* (case-insensitively), or, if none has it, fails with the not-found      *)
(* error and sends no issue-creation request; with project_key the project *)
(* list is never fetched.                                                  *)
C7_ProjectResolution ==
    (tool = "create_issue" /\ inp.summary # <<>>) =>
      /\ (inp.project_key = <<>> /\ inp.project_name = <<>>)
            => /\ result.status = "error"
               /\ result.error = <<"Either project_key or project_name must be provided">>
               /\ calls = <<>>
      /\ (inp.project_key = <<>> /\ inp.project_name # <<>>)
            => /\ Len(calls) >= 1 /\ calls[1].op = "GET projects"
               /\ (~inp.up.projects.raises /\ FirstListed # 0)
                    => /\ Len(calls) = 2
                       /\ calls[2].op = "POST issue"
                       /\ calls[2].data["project"]
                            = [key |-> inp.up.projects.body[FirstListed].key]
               /\ (~inp.up.projects.raises /\ FirstListed = 0)
                    => /\ result.status = "error"
                       /\ result.error = <<"Project '">> \o inp.project_name
                                         \o <<"' not found">>
                       /\ IssueRequests = {}
      /\ inp.project_key # <<>>
            => /\ "GET projects" \notin OpsOf(calls)
               /\ \A i \in IssueRequests :
                      calls[i].data["project"] = [key |-> inp.project_key]

\* resolved by name, the name being listed twice in different case
C7_Witness ==
    /\ tool = "create_issue" /\ inp.summary # <<>>
    /\ inp.project_key = <<>> /\ inp.project_name # <<>>
    /\ ~inp.up.projects.raises
    /\ FirstListed = 1
    /\ Len(inp.up.projects.body) >= 2
    /\ EqIgnoreCase(inp.up.projects.body[2].name, inp.project_name)
    /\ inp.up.projects.body[2].key # inp.up.projects.body[1].key
    /\ result.status = "ok"

UpstreamIssues == inp.up.search.body.issues

(* C8: search_issues with a non-empty query never fails because an issue   *)
(* has no assignee or no priority, whether the field is missing or null:   *)
(* such an issue gets assignee "Unassigned" / priority "None", the others  *)
(* pass displayName and name through, and the result is a success with one *)
(* record per upstream issue.                                              *)
C8_MissingFieldsGetDefaults ==
    (tool = "search_issues" /\ inp.query # <<>> /\ ~inp.up.search.raises)
      => /\ result.status = "ok"
         /\ Len(result.data.issues) = Len(UpstreamIssues)
         /\ \A i \in DOMAIN UpstreamIssues :
              /\ result.data.issues[i].assignee =
                   (IF UpstreamIssues[i].assignee.st = "obj"
                    THEN PyStr(UpstreamIssues[i].assignee.name)
                    ELSE PyStr(<<"Unassigned">>))
              /\ result.data.issues[i].priority =
                   (IF UpstreamIssues[i].priority.st = "obj"
                    THEN PyStr(UpstreamIssues[i].priority.name)
                    ELSE PyStr(<<"None">>))

(* C9: for every board_type that is not kanban or scrum case-              *)
(* insensitively, with a valid project_key, create_project fails with the  *)
(* validation error naming the allowed values, before any network call.    *)
C9_BadBoardTypeFailsBeforeNetwork ==
    (/\ tool = "create_project"
     /\ MatchesKeyPattern(inp.project_key)
     /\ ~SupportedBoardType(inp.board_type))
      => /\ result.status = "error"
         /\ result.error = <<"Invalid board_type '">> \o inp.board_type
                           \o <<"'. Must be 'scrum' or 'kanban'">>
         /\ calls = <<>>

ProjectCreated ==
    /\ tool = "create_project"
    /\ \E i \in DOMAIN calls : calls[i].op = "POST project"
    /\ ~inp.up.post.raises

NoBoardFound == inp.up.board.raises \/ inp.up.board.body.values = <<>>

(* C10: once the project-creation request has succeeded, create_project    *)
(* returns a success record with the project's key, id and URL whatever    *)
(* the board lookup does; if the lookup fails or returns no boards the     *)
(* board fields (board_id, board_url) are empty, otherwise they are taken  *)
(* from the first board.                                                   *)
C10_BoardLookupBestEffort ==
    ProjectCreated
      => /\ result.status = "ok"
         /\ result.data.project_key = inp.up.post.body.key
         /\ result.data.project_id = inp.up.post.body.id
         /\ result.data.project_url
              = BaseUrl \o <<"/browse/">> \o inp.project_key
         /\ NoBoardFound
              => /\ result.data.board_id = PyNone
                 /\ result.data.board_url = <<>>
         /\ ~NoBoardFound
              => /\ result.data.board_id = inp.up.board.body.values[1].id
                 /\ result.data.board_url
                      = BaseUrl \o <<"/jira/software/c/projects/">>
                        \o inp.project_key \o <<"/boards/">>
                        \o IntToStr(inp.up.board.body.values[1].id.n)

====
